---- MODULE Spec2Model ----
(***************************************************************************)
(* A model of src/main.py: the DingTalk reminder scheduler.                *)
(*                                                                         *)
(* One run of run_scheduler reads the Beijing-time clock once, loads       *)
(* tasks.json, and walks the task list; every task that is due is          *)
(* resolved to content, rendered, signed and POSTed to the webhook.        *)
(*                                                                         *)
(* Representation                                                          *)
(*   - An instant is a number of seconds since the Unix epoch.             *)
(*   - A string the code inspects character by character (a date, a clock  *)
(*     time) is a sequence of one-character strings.                       *)
(*   - A text the code only concatenates, splits into lines or substitutes *)
(*     into (content, title, template, rendered message) is a sequence of  *)
(*     tokens; every whitespace character, every line break and every "#"  *)
(*     is a token of its own (a heading marker "###" is three tokens), and *)
(*     so is each placeholder "{{title}}" ...                              *)
(*   - Strings are ASCII: the model has every ASCII whitespace character, *)
(*     line break and digit Python knows.  The control characters without  *)
(*     an escape are written as the tokens "<VT>" (\x0b), "<FS>" (\x1c),    *)
(*     "<GS>" (\x1d), "<RS>" (\x1e) and "<US>" (\x1f).                       *)
(*   - The literals of the source are Chinese; the model writes them in    *)
(*     ASCII and names the source line of each.                            *)
(*   - A task is a function from its JSON keys to values; a key the JSON   *)
(*     omits is not in its domain (dict.get supplies the default).         *)
(***************************************************************************)
EXTENDS Integers, Sequences, FiniteSets, TLC

VARIABLES
    clock,        \* the wall clock: UTC seconds since the epoch
    SECRET,       \* os.environ.get('SECRET'); None when unset
    WEBHOOK_URL,  \* os.environ.get('WEBHOOK_URL'); None when unset
    tasks_json,   \* the file tasks.json, its value the parsed task list
    template_md,  \* the file template.md, its value the template text
    pc,           \* where the process is: idle, loop, send, post, done
    run,          \* number of runs started so far
    ticks,        \* number of clock ticks taken so far
    now,          \* run_scheduler's local now (Beijing time, seconds)
    tasks,        \* run_scheduler's local tasks
    idx,          \* index of the task the for loop is at
    found_task,   \* run_scheduler's local found_task
    call,         \* arguments of the pending send_markdown_msg call
    url,          \* send_markdown_msg's local url
    sendClock,    \* wall clock when the pending send_markdown_msg was entered
    stdout,       \* what this run has printed
    selected,     \* indices of the tasks this run handed to send_markdown_msg
    startClock,   \* wall clock when this run started
    posts,        \* the HTTP POSTs this run has issued
    history       \* for each earlier run, the task indices it POSTed

vars == <<clock, SECRET, WEBHOOK_URL, tasks_json, template_md, pc, run, ticks,
          now, tasks, idx, found_task, call, url, sendClock, stdout, selected,
          startClock, posts, history>>

\* None, where the code only tests truthiness or equality with a string: the
\* empty string stands for it (both are falsy, neither equals a date)
None == <<>>

\* a file: missing, present but unreadable (open or parse raises), or its value
NoFile == [exists |-> FALSE, readable |-> FALSE, value |-> <<>>]
Unreadable == [exists |-> TRUE, readable |-> FALSE, value |-> <<>>]
File(v) == [exists |-> TRUE, readable |-> TRUE, value |-> v]

\* no send_markdown_msg call is pending
NoCall == [markdown_text |-> <<>>, at_mobiles |-> <<>>, at_user_ids |-> <<>>,
           is_at_all |-> FALSE]

-----------------------------------------------------------------------------
(* Bounds of the model                                                     *)

MaxTasks == 2
MaxRuns == 2
MaxTicks == 1

-----------------------------------------------------------------------------
(* dict.get, slices, joins                                                 *)

Get(d, k, default) == IF k \in DOMAIN d THEN d[k] ELSE default

Slice(s, a, b) == IF a > b THEN <<>> ELSE SubSeq(s, a, b)

\* s.startswith(p, at position i)
MatchAt(s, p, i) ==
    /\ i + Len(p) - 1 <= Len(s)
    /\ \A k \in 1..Len(p) : s[i + k - 1] = p[k]

\* p occurs in s
Contains(s, p) == \E i \in 1..(Len(s) - Len(p) + 1) : MatchAt(s, p, i)

\* str.replace for a one-token placeholder: every occurrence, left to right
RECURSIVE Replace(_, _, _)
Replace(s, ph, val) ==
    IF s = <<>> THEN <<>>
    ELSE IF Head(s) = ph THEN val \o Replace(Tail(s), ph, val)
    ELSE <<Head(s)>> \o Replace(Tail(s), ph, val)

-----------------------------------------------------------------------------
(* datetime: the proleptic Gregorian calendar and strftime                 *)

DigitChars == <<"0", "1", "2", "3", "4", "5", "6", "7", "8", "9">>
IsDigit(c) == \E d \in 1..10 : DigitChars[d] = c
DigitVal(c) == (CHOOSE d \in 1..10 : DigitChars[d] = c) - 1

\* str(n) for n >= 0
RECURSIVE Str(_)
Str(n) == IF n < 10 THEN <<DigitChars[n + 1]>>
          ELSE Str(n \div 10) \o <<DigitChars[(n % 10) + 1]>>

\* zero-padded decimal of width w (strftime's %Y %m %d %H %M %S)
RECURSIVE Pad(_, _)
Pad(n, w) == IF w = 0 THEN <<>>
             ELSE Pad(n \div 10, w - 1) \o <<DigitChars[(n % 10) + 1]>>

\* int(digits)
RECURSIVE ToInt(_)
ToInt(ds) == IF ds = <<>> THEN 0
             ELSE 10 * ToInt(SubSeq(ds, 1, Len(ds) - 1)) + DigitVal(ds[Len(ds)])

\* year, month, day of the day number z (days since 1970-01-01)
CivilFromDays(z) ==
    LET zz == z + 719468
        era == zz \div 146097
        doe == zz - era * 146097
        yoe == (doe - doe \div 1460 + doe \div 36524 - doe \div 146096) \div 365
        doy == doe - (365 * yoe + yoe \div 4 - yoe \div 100)
        mp == (5 * doy + 2) \div 153
        d == doy - (153 * mp + 2) \div 5 + 1
        m == IF mp < 10 THEN mp + 3 ELSE mp - 9
        y == yoe + era * 400 + (IF m <= 2 THEN 1 ELSE 0)
    IN [year |-> y, month |-> m, day |-> d]

DayOf(t) == t \div 86400
SecondOfDay(t) == t % 86400

\* t.strftime('%Y-%m-%d')
StrfDate(t) ==
    LET c == CivilFromDays(DayOf(t))
    IN Pad(c.year, 4) \o <<"-">> \o Pad(c.month, 2) \o <<"-">> \o Pad(c.day, 2)

\* t.strftime('%H:%M')
StrfHM(t) ==
    LET s == SecondOfDay(t)
    IN Pad(s \div 3600, 2) \o <<":">> \o Pad((s % 3600) \div 60, 2)

\* t.strftime('%Y-%m-%d %H:%M:%S')
StrfDateTime(t) ==
    StrfDate(t) \o <<" ">> \o StrfHM(t) \o <<":">> \o Pad(SecondOfDay(t) % 60, 2)

-----------------------------------------------------------------------------
(* datetime.strptime(f"{today_str} {task_time_str}", "%Y-%m-%d %H:%M")     *)
(* The date part is today_str, which strftime wrote, so only the part      *)
(* after it decides: the blank of the format is the regex \s+, which takes  *)
(* the blank of the f-string and any whitespace the time begins with,      *)
(* %H is 2[0-3]|[0-1]\d|\d, %M is [0-5]\d|\d, and nothing may remain.      *)

\* what \s matches and str.strip() removes
Whitespace == {" ", "\t", "\n", "\r", "\f", "<VT>", "<FS>", "<GS>", "<RS>", "<US>"}

RECURSIVE LStrip(_)
LStrip(s) == IF s # <<>> /\ Head(s) \in Whitespace THEN LStrip(Tail(s)) ELSE s

AllDigits(s) == \A i \in 1..Len(s) : IsDigit(s[i])

HourOk(h) == /\ Len(h) \in {1, 2}
             /\ AllDigits(h)
             /\ ToInt(h) <= 23

MinuteOk(m) == /\ Len(m) \in {1, 2}
               /\ AllDigits(m)
               /\ ToInt(m) <= 59

\* the positions of ":" at which the hour and minute patterns both match
ColonSplits(r) ==
    {i \in 1..Len(r) : /\ r[i] = ":"
                       /\ HourOk(Slice(r, 1, i - 1))
                       /\ MinuteOk(Slice(r, i + 1, Len(r)))}

\* [ok |-> TRUE, dt |-> the instant] or [ok |-> FALSE] for ValueError
Strptime(today, task_time_str) ==
    LET r == LStrip(task_time_str)
        cs == ColonSplits(r)
    IN IF cs = {} THEN [ok |-> FALSE, dt |-> 0]
       ELSE LET i == CHOOSE j \in cs : TRUE
            IN [ok |-> TRUE,
                dt |-> DayOf(today) * 86400
                         + ToInt(Slice(r, 1, i - 1)) * 3600
                         + ToInt(Slice(r, i + 1, Len(r))) * 60]

-----------------------------------------------------------------------------
(* Content providers (lines 18-56)                                         *)

\* line 26: the static provider's text for a task without content
NoContent == <<"(no content)">>
\* line 34: the crawler provider's text for a task without source_url
UnknownSource == <<"(unknown source)">>

\* StaticContentProvider.generate
StaticGenerate(task) == [raised |-> FALSE, value |-> Get(task, "content", NoContent)]

\* CrawlerContentProvider.generate
CrawlerGenerate(task) ==
    [raised |-> FALSE,
     value |-> <<"fetching dynamic data...", "\n", "source: ">>
                 \o Get(task, "source_url", UnknownSource)
                 \o <<"\n", "(write your crawler code here)">>]

\* the registry: content_type -> provider
PROVIDERS == [static |-> "StaticContentProvider",
              crawler |-> "CrawlerContentProvider"]

\* provider.generate(task)
Generate(provider, task) ==
    IF provider = "StaticContentProvider" THEN StaticGenerate(task)
    ELSE CrawlerGenerate(task)

\* an unknown kind silently treated as static
get_task_content_defaulting(task) ==
    LET c_type == Get(task, "content_type", "static")
    IN IF c_type = "crawler" THEN CrawlerGenerate(task).value
       ELSE StaticGenerate(task).value

get_task_content(task) ==
    LET c_type == Get(task, "content_type", "static")
    IN IF c_type \in DOMAIN PROVIDERS
       THEN LET r == Generate(PROVIDERS[c_type], task)
            IN IF r.raised THEN <<"content generation failed: ">> \o r.value
               ELSE r.value
       ELSE <<"unknown task type: ", c_type>>

-----------------------------------------------------------------------------
(* derive_title (lines 60-66)                                              *)

\* the character of startswith('#') and lstrip('#')
Hashes == {"#"}

RECURSIVE RStrip(_)
RStrip(s) == IF s # <<>> /\ s[Len(s)] \in Whitespace
             THEN RStrip(SubSeq(s, 1, Len(s) - 1))
             ELSE s

Strip(s) == RStrip(LStrip(s))

\* s.lstrip('#')
RECURSIVE LStripHashes(_)
LStripHashes(s) == IF s # <<>> /\ Head(s) \in Hashes THEN LStripHashes(Tail(s))
                   ELSE s

\* where str.splitlines() breaks; "\r" followed by "\n" is one break
LineBreaks == {"\n", "\r", "\f", "<VT>", "<FS>", "<GS>", "<RS>"}

\* md_text.splitlines()
RECURSIVE SplitLines(_, _)
SplitLines(s, cur) ==
    IF s = <<>> THEN (IF cur = <<>> THEN <<>> ELSE <<cur>>)
    ELSE IF Head(s) = "\r" /\ Len(s) > 1 /\ s[2] = "\n"
    THEN <<cur>> \o SplitLines(Tail(Tail(s)), <<>>)
    ELSE IF Head(s) \in LineBreaks THEN <<cur>> \o SplitLines(Tail(s), <<>>)
    ELSE SplitLines(Tail(s), Append(cur, Head(s)))

DefaultTitle == <<"Reminder">>

RECURSIVE FirstHeading(_)
FirstHeading(lines) ==
    IF lines = <<>> THEN DefaultTitle
    ELSE LET s == Strip(Head(lines))
         IN IF s # <<>> /\ Head(s) \in Hashes THEN Strip(LStripHashes(s))
            ELSE FirstHeading(Tail(lines))

derive_title(md_text) == FirstHeading(SplitLines(md_text, <<>>))

-----------------------------------------------------------------------------
(* The clock and the built-in layout (lines 68-89)                         *)

\* the clock without the offset
get_utc_time == clock

\* datetime.utcnow() + timedelta(hours=8)
get_beijing_time == clock + 8 * 3600

format_message(title, content) ==
    LET dt == StrfDateTime(get_beijing_time)
    IN <<"#", "#", "#", " ", "Task reminder: ">> \o title
         \o <<"\n", "\n", "---", "\n", "**Sent at:** ">> \o dt
         \o <<"\n", "\n", "**Content:**", "\n", ">", " ">> \o content
         \o <<"\n", "\n", "---", "\n", "#", "#", "#", "#", " ", "Task status",
              "\n",
              "* **Node:** GitHub Actions", "\n",
              "* **Channel:** DingTalk assistant", "\n",
              "* **Security:** HMAC-SHA256", "\n">>

-----------------------------------------------------------------------------
(* Signing (lines 91-106)                                                  *)

\* not x, for an environment variable
Falsy(x) == x = None

\* quote_plus(b64encode(hmac.new(key, msg, sha256).digest())): the keyed hash
\* as an uninterpreted, injective function of key and message
HmacSign(key, msg) == <<"HMAC-SHA256(">> \o key \o <<",">> \o msg \o <<")">>

\* str(round(time.time() * 1000))
Timestamp == Str(clock) \o <<"0", "0", "0">>

\* signing that keeps the first URL of the run
get_signed_url_reusing ==
    IF Falsy(SECRET) \/ Falsy(WEBHOOK_URL) THEN None
    ELSE IF posts # <<>> THEN posts[1].url
    ELSE WEBHOOK_URL \o <<"&", "timestamp=">> \o Timestamp \o <<"&sign=">>
           \o HmacSign(SECRET, Timestamp \o <<"\n">> \o SECRET)

get_signed_url ==
    IF Falsy(SECRET) \/ Falsy(WEBHOOK_URL) THEN None
    ELSE LET timestamp == Timestamp
             sign == HmacSign(SECRET, timestamp \o <<"\n">> \o SECRET)
             sep == IF \E i \in 1..Len(WEBHOOK_URL) : WEBHOOK_URL[i] = "?"
                    THEN "&" ELSE "?"
         IN WEBHOOK_URL \o <<sep, "timestamp=">> \o timestamp
              \o <<"&sign=">> \o sign

\* the JSON body of send_markdown_msg (lines 115-128)
Payload(c) ==
    [msgtype |-> "markdown",
     markdown |-> [title |-> derive_title(c.markdown_text),
                   text |-> c.markdown_text],
     at |-> [isAtAll |-> c.is_at_all,
             atUserIds |-> c.at_user_ids,
             atMobiles |-> c.at_mobiles]]

-----------------------------------------------------------------------------
(* run_scheduler: selection (lines 161-193)                                *)

TIME_WINDOW_MINUTES == 15

\* if task_time_str: (None and the empty string are falsy)
HasTimeAlways(task) == TRUE

HasTime(task) == ~Falsy(Get(task, "time", None))

\* diff_minutes < 0, diff in seconds
NotYet(diff) == diff < 0

\* diff_minutes > TIME_WINDOW_MINUTES, diff in seconds
ExpiredAtWindowEnd(diff) == diff >= TIME_WINDOW_MINUTES * 60

Expired(diff) == diff > TIME_WINDOW_MINUTES * 60

\* what the loop body decides for one task at the run's now:
\* "other_date" (line 166), "not_yet" (185), "expired" (188),
\* "bad_time" (193), or "due" (the task goes on to step 3)
Verdict(task, t) ==
    IF Get(task, "date", None) # StrfDate(t) THEN "other_date"
    ELSE IF ~HasTime(task) THEN "due"
    ELSE LET p == Strptime(t, Get(task, "time", <<>>))
         IN IF ~p.ok THEN "bad_time"
            ELSE IF NotYet(t - p.dt) THEN "not_yet"
            ELSE IF Expired(t - p.dt) THEN "expired"
            ELSE "due"

\* a run that remembers what earlier runs delivered
CurrentVerdictOnce ==
    IF \E r \in 1..Len(history) : idx \in history[r]
    THEN "expired"
    ELSE Verdict(tasks[idx], now)

\* the verdict for the task the loop is at
CurrentVerdict == Verdict(tasks[idx], now)

-----------------------------------------------------------------------------
(* run_scheduler: mentions and rendering (lines 200-225)                   *)

\* ' '.join([f"@{m}" for m in at_mobiles])
RECURSIVE JoinMentions(_)
JoinMentions(ms) ==
    IF ms = <<>> THEN <<>>
    ELSE IF Len(ms) = 1 THEN <<"@", ms[1]>>
    ELSE <<"@", ms[1], " ">> \o JoinMentions(Tail(ms))

MentionsText(task) ==
    LET at_mobiles == Get(task, "at_mobiles", <<>>)
        is_at_all == Get(task, "is_at_all", FALSE)
    IN IF is_at_all THEN <<"@all">>
       ELSE IF at_mobiles # <<>> THEN JoinMentions(at_mobiles)
       ELSE <<"none">>

\* line 198: the title of a task without one
DefaultTaskTitle == <<"Schedule reminder">>

Render(task) ==
    LET final_content == get_task_content(task)
        title == Get(task, "title", DefaultTaskTitle)
    IN IF ~template_md.exists \/ ~template_md.readable
       THEN format_message(title, final_content)
       ELSE Replace(Replace(Replace(Replace(template_md.value,
                "{{title}}", title),
                "{{datetime}}", StrfDateTime(now)),
                "{{content}}", final_content),
                "{{mentions}}", MentionsText(task))

\* the arguments of the send_markdown_msg call (lines 228-233)
SendArgs(task) ==
    [markdown_text |-> Render(task),
     at_mobiles |-> Get(task, "at_mobiles", <<>>),
     at_user_ids |-> Get(task, "at_user_ids", <<>>),
     is_at_all |-> Get(task, "is_at_all", FALSE)]

-----------------------------------------------------------------------------
(* The inputs: environment, files, instants                                *)

Today == <<"2", "0", "2", "4", "-", "0", "1", "-", "0", "5">>
Yesterday == <<"2", "0", "2", "4", "-", "0", "1", "-", "0", "4">>
Tomorrow == <<"2", "0", "2", "4", "-", "0", "1", "-", "0", "6">>

\* the UTC instant at which 2024-01-05 begins in Beijing
TodayStartsUtc == 19727 * 86400 - 8 * 3600

TaskPool ==
    { [date |-> Today, time |-> <<"0", "9", ":", "0", "0">>,
       title |-> <<"Standup">>,
       content |-> <<"#", " ", "Daily", "\n", "join the call">>,
       at_mobiles |-> <<"13800000000", "13900000000">>],
      [date |-> Today, content_type |-> "file",
       source_url |-> <<"/no/such/file">>,
       at_user_ids |-> <<"user1">>],
      [date |-> Today, time |-> <<"\t", "<VT>", "9", ":", "5">>,
       content_type |-> "crawler", is_at_all |-> TRUE,
       at_mobiles |-> <<"13800000000">>],
      [date |-> Today, time |-> <<"2", "4", ":", "0", "0">>,
       content |-> <<"never parsed">>],
      [date |-> Yesterday, time |-> <<"0", "9", ":", "0", "0">>,
       content |-> <<"stale">>],
      [date |-> Yesterday, content |-> <<"all day, yesterday">>],
      [date |-> Tomorrow, time |-> <<"9", "a", "m">>] }

TaskFiles ==
    {Unreadable} \cup {File(l) : l \in UNION {[1..n -> TaskPool] : n \in 0..MaxTasks}}

Templates ==
    { NoFile,
      File(<<"#", "#", " ", "{{title}}", "\n", "{{datetime}}", "\n",
             "{{content}}", "\n", "cc: ", "{{mentions}}">>) }

\* the environments: complete (the URL with and without a query string),
\* SECRET unset, WEBHOOK_URL unset
Configs ==
    { <<<<"SEC0123">>,
        <<"https://oapi.dingtalk.com/robot/send", "?", "access_token=t0">>>>,
      <<<<"SEC0123">>, <<"https://oapi.dingtalk.com/robot/send">>>>,
      <<None,
        <<"https://oapi.dingtalk.com/robot/send", "?", "access_token=t0">>>>,
      <<<<"SEC0123">>, None>> }

\* when the first run starts: Beijing 00:30, 08:59:59, 09:00:00, 09:00:01,
\* 09:10:00 (00:30 in Beijing is 16:30 of the day before in UTC)
StartInstants ==
    { TodayStartsUtc + 30 * 60,
      TodayStartsUtc + 9 * 3600 - 1,
      TodayStartsUtc + 9 * 3600,
      TodayStartsUtc + 9 * 3600 + 1,
      TodayStartsUtc + 9 * 3600 + 10 * 60 }

\* the external trigger's period, in seconds (the comment at lines 159-160
\* proposes a cron job every 15 minutes)
TriggerPeriod == 15 * 60

-----------------------------------------------------------------------------
(* The state machine                                                       *)

Init ==
    /\ clock \in StartInstants
    /\ \E c \in Configs : SECRET = c[1] /\ WEBHOOK_URL = c[2]
    /\ tasks_json \in TaskFiles
    /\ template_md \in Templates
    /\ pc = "idle"
    /\ run = 0
    /\ ticks = 0
    /\ now = 0
    /\ tasks = <<>>
    /\ idx = 0
    /\ found_task = FALSE
    /\ call = NoCall
    /\ url = None
    /\ sendClock = 0
    /\ stdout = <<>>
    /\ selected = <<>>
    /\ startClock = 0
    /\ posts = <<>>
    /\ history = <<>>

env == <<SECRET, WEBHOOK_URL, tasks_json, template_md>>

\* lines 138-156: read the clock once, load tasks.json
StartRun ==
    /\ pc = "idle"
    /\ run' = run + 1
    /\ now' = get_beijing_time
    /\ startClock' = clock
    /\ IF ~tasks_json.readable
       THEN /\ stdout' = <<"now", "read tasks.json failed">>
            /\ pc' = "done"
            /\ UNCHANGED <<tasks, idx>>
       ELSE /\ stdout' = <<"now">>
            /\ tasks' = tasks_json.value
            /\ idx' = 1
            /\ pc' = "loop"
    /\ found_task' = FALSE
    /\ selected' = <<>>
    /\ UNCHANGED <<clock, env, ticks, call, url, sendClock, posts, history>>

InLoop == pc = "loop" /\ idx <= Len(tasks)

\* lines 166, 185, 188: continue
SkipTask ==
    /\ InLoop
    /\ CurrentVerdict \in {"other_date", "not_yet", "expired"}
    /\ idx' = idx + 1
    /\ UNCHANGED <<clock, env, pc, run, ticks, now, tasks, found_task, call,
                   url, sendClock, stdout, selected, startClock, posts, history>>

\* lines 191-193: except ValueError: print, continue
TimeFormatError ==
    /\ InLoop
    /\ CurrentVerdict = "bad_time"
    /\ stdout' = Append(stdout, "time format error")
    /\ idx' = idx + 1
    /\ UNCHANGED <<clock, env, pc, run, ticks, now, tasks, found_task, call,
                   url, sendClock, selected, startClock, posts, history>>

\* lines 190, 195-233: the task is due; resolve, render, call send_markdown_msg
PrepareTask ==
    /\ InLoop
    /\ CurrentVerdict = "due"
    /\ stdout' = stdout
                   \o (IF HasTime(tasks[idx]) THEN <<"window hit">> ELSE <<>>)
                   \o <<"preparing">>
                   \o (IF template_md.exists /\ ~template_md.readable
                       THEN <<"template error">> ELSE <<>>)
    /\ call' = SendArgs(tasks[idx])
    /\ selected' = Append(selected, idx)
    /\ pc' = "send"
    /\ UNCHANGED <<clock, env, run, ticks, now, tasks, idx, found_task, url,
                   sendClock, startClock, posts, history>>

\* lines 110-112: url = get_signed_url(); if not url: return
Sign ==
    /\ pc = "send"
    /\ sendClock' = clock
    /\ LET u == get_signed_url
       IN IF u = None
          THEN /\ stdout' = Append(stdout, "config error")
               /\ url' = None
               /\ call' = NoCall
               /\ found_task' = TRUE
               /\ idx' = idx + 1
               /\ pc' = "loop"
          ELSE /\ url' = u
               /\ pc' = "post"
               /\ UNCHANGED <<stdout, call, found_task, idx>>
    /\ UNCHANGED <<clock, env, run, ticks, now, tasks, selected, startClock,
                   posts, history>>

\* a transport exception that nothing catches
PostUncaught ==
    /\ pc = "post"
    /\ posts' = Append(posts, [run |-> run, task |-> idx, url |-> url,
                               json |-> Payload(call),
                               signedAt |-> sendClock])
    /\ \E outcome \in {"response", "send failed"} :
          /\ stdout' = Append(stdout, outcome)
          /\ IF outcome = "response"
             THEN found_task' = TRUE /\ idx' = idx + 1 /\ pc' = "loop"
             ELSE pc' = "done" /\ UNCHANGED <<found_task, idx>>
    /\ url' = None
    /\ call' = NoCall
    /\ UNCHANGED <<clock, env, run, ticks, now, tasks, sendClock, selected,
                   startClock, history>>

\* lines 114-134: requests.post answers or raises; either way the call returns
Post ==
    /\ pc = "post"
    /\ posts' = Append(posts, [run |-> run, task |-> idx, url |-> url,
                               json |-> Payload(call),
                               signedAt |-> sendClock])
    /\ \E outcome \in {"response", "send failed"} :
          stdout' = Append(stdout, outcome)
    /\ url' = None
    /\ call' = NoCall
    /\ found_task' = TRUE
    /\ idx' = idx + 1
    /\ pc' = "loop"
    /\ UNCHANGED <<clock, env, run, ticks, now, tasks, sendClock, selected,
                   startClock, history>>

\* lines 236-237: the loop is over
Finish ==
    /\ pc = "loop"
    /\ idx > Len(tasks)
    /\ stdout' = IF found_task THEN stdout ELSE Append(stdout, "no task matched")
    /\ pc' = "done"
    /\ UNCHANGED <<clock, env, run, ticks, now, tasks, idx, found_task, call,
                   url, sendClock, selected, startClock, posts, history>>

\* the process ends; the external trigger starts another one later
Exit ==
    /\ pc = "done"
    /\ run < MaxRuns
    /\ clock' = startClock + TriggerPeriod
    /\ history' = Append(history, {posts[k].task : k \in 1..Len(posts)})
    /\ posts' = <<>>
    /\ pc' = "idle"
    /\ now' = 0
    /\ tasks' = <<>>
    /\ idx' = 0
    /\ found_task' = FALSE
    /\ sendClock' = 0
    /\ stdout' = <<>>
    /\ selected' = <<>>
    /\ startClock' = 0
    /\ UNCHANGED <<env, run, ticks, call, url>>

\* the wall clock advances while the run is under way
Tick ==
    /\ InLoop \/ pc = "send"
    /\ ticks < MaxTicks
    /\ clock' = clock + 1
    /\ ticks' = ticks + 1
    /\ UNCHANGED <<env, pc, run, now, tasks, idx, found_task, call, url,
                   sendClock, stdout, selected, startClock, posts, history>>

Next ==
    \/ StartRun
    \/ SkipTask
    \/ TimeFormatError
    \/ PrepareTask
    \/ Sign
    \/ Post
    \/ Finish
    \/ Exit
    \/ Tick

Spec == Init /\ [][Next]_vars

-----------------------------------------------------------------------------
(* What the claims speak of, stated without the model's own parsing and    *)
(* formatting: the dates and times of the task pool, read by hand.         *)

\* the day number (days since 1970-01-01) of a date of the pool
PoolDay(d) == CASE d = Today -> 19727
                [] d = Yesterday -> 19726
                [] d = Tomorrow -> 19728
                [] OTHER -> -1

\* the minute of the day of a time of the pool that is HH:MM; -1 for the rest
PoolMinute(t) == CASE t = <<"0", "9", ":", "0", "0">> -> 9 * 60
                   [] t = <<"\t", "<VT>", "9", ":", "5">> -> 9 * 60 + 5
                   [] OTHER -> -1

\* the Beijing-time instant at which this run started
RunInstant == startClock + 8 * 3600

Running == pc # "idle"
Loaded == Running /\ tasks_json.readable
ConfigComplete == SECRET # None /\ WEBHOOK_URL # None

TaskDay(i) == PoolDay(Get(tasks[i], "date", <<>>))
DateMatches(i) == TaskDay(i) = RunInstant \div 86400
Timed(i) == "time" \in DOMAIN tasks[i]
TimeParses(i) == Timed(i) /\ PoolMinute(tasks[i].time) >= 0

\* now - T in seconds, for a task whose time parses
Elapsed(i) == RunInstant - (TaskDay(i) * 86400 + PoolMinute(tasks[i].time) * 60)
InWindow(i) == 0 <= Elapsed(i) /\ Elapsed(i) <= 15 * 60

\* the loop has dealt with task i
Decided(i) == i < idx \/ (i = idx /\ pc \in {"send", "post"})

\* how often this run handed task i to send_markdown_msg
TimesSelected(i) == Cardinality({k \in 1..Len(selected) : selected[k] = i})
Handed(i) == TimesSelected(i) > 0
Posted(i) == \E k \in 1..Len(posts) : posts[k].task = i

Occurrences(log, tag) == Cardinality({k \in 1..Len(log) : log[k] = tag})

\* C1: a task dated today whose time parses is selected exactly when
\* 0 <= now - T <= 15 minutes, seconds included
C1_DueIffInWindow ==
    Loaded =>
      \A i \in 1..Len(tasks) :
         (Decided(i) /\ DateMatches(i) /\ TimeParses(i))
            => (Handed(i) <=> InWindow(i))

\* a run 15 minutes and one second after T skips a task the run before sent
C1_Witness ==
    /\ pc = "done"
    /\ Len(history) = 1
    /\ \E i \in 1..Len(tasks) :
          /\ DateMatches(i) /\ TimeParses(i)
          /\ Elapsed(i) = 15 * 60 + 1
          /\ ~Handed(i)
          /\ i \in history[1]

\* C2: a task whose date is not the Beijing date of the run is never
\* selected, resolved, signed or delivered, whatever its time
C2_OtherDateNeverSelected ==
    Loaded =>
      \A i \in 1..Len(tasks) :
         ~DateMatches(i) =>
            /\ ~Handed(i)
            /\ ~Posted(i)
            /\ (pc \in {"send", "post"} => idx # i)

\* at 00:30 in Beijing (16:30 the day before in UTC) yesterday's tasks are
\* passed over while a task of today is sent
C2_Witness ==
    /\ pc = "done"
    /\ Len(tasks) = 2
    /\ RunInstant % 86400 = 30 * 60
    /\ TaskDay(1) = DayOf(startClock)
    /\ ~DateMatches(1) /\ ~Timed(1) /\ ~Handed(1)
    /\ DateMatches(2) /\ Posted(2)

\* C3: a task dated today without a time is handed to the send step exactly
\* once in a run that has ended, and never more than once before
C3_UntimedExactlyOnce ==
    Loaded =>
      \A i \in 1..Len(tasks) :
         (DateMatches(i) /\ ~Timed(i)) =>
            /\ TimesSelected(i) <= 1
            /\ Decided(i) => TimesSelected(i) = 1
            /\ pc = "done" => TimesSelected(i) = 1

C3_Witness ==
    /\ pc = "done"
    /\ Len(tasks) = 2
    /\ tasks[1] = tasks[2]
    /\ DateMatches(1) /\ ~Timed(1)
    /\ TimesSelected(1) = 1 /\ TimesSelected(2) = 1
    /\ Len(posts) = 2

\* C4: with the secret or the URL missing every run reports a configuration
\* error and issues no POST, even with no task due.  The code looks at the
\* configuration only in get_signed_url, once per due task, so a run with no
\* due task ends without reporting it.
C4_AlwaysReportsConfigError ==
    (pc = "done" /\ Loaded /\ ~ConfigComplete) =>
        /\ Occurrences(stdout, "config error") > 0
        /\ posts = <<>>

\* the task is due, by the pool's dates and times
DueByHand(i) == DateMatches(i) /\ (~Timed(i) \/ (TimeParses(i) /\ InWindow(i)))

\* how far the run has come: three steps per task, the end past them all
Progress ==
    CASE pc = "loop" -> 3 * idx
      [] pc = "send" -> 3 * idx + 1
      [] pc = "post" -> 3 * idx + 2
      [] pc = "done" -> 3 * (Len(tasks) + 2)
      [] OTHER -> 0

\* a run that is over has examined every task, handed every due one to the
\* send step and, with the configuration complete, POSTed it
EndedPastTheLastTask ==
    (pc = "done" /\ Loaded) =>
        /\ idx = Len(tasks) + 1
        /\ \A i \in 1..Len(tasks) :
              DueByHand(i) => /\ Handed(i)
                              /\ ConfigComplete => Posted(i)

\* every step of a run under way moves it forward (or is the clock ticking)
StepAdvances ==
    pc \in {"loop", "send", "post"} =>
        \/ Progress' > Progress
        \/ clock' > clock /\ Progress' = Progress

\* C5: no failure of one task stops the run: whatever failed (a time that
\* does not parse, signing, the POST), the step taken moves the run on to the
\* next task, and the run ends only past the last task with every due task
\* handed to the send step
C5_FailuresDoNotStopTheRun ==
    []EndedPastTheLastTask /\ [][StepAdvances]_vars

\* the first delivery fails, the second task is still delivered
C5_Witness ==
    /\ pc = "done"
    /\ Len(posts) = 2
    /\ posts[1].task = 1 /\ posts[2].task = 2
    /\ \E a, b \in 1..Len(stdout) :
          a < b /\ stdout[a] = "send failed" /\ stdout[b] = "response"

UnknownKind(i) == Get(tasks[i], "content_type", "static") \notin {"static", "crawler"}

\* C6: a due task of an unregistered content kind is rendered with the
\* placeholder that names the kind, and is delivered with it
C6_UnknownKindPlaceholderDelivered ==
    Loaded =>
      \A i \in 1..Len(tasks) :
         UnknownKind(i) =>
            /\ (pc \in {"send", "post"} /\ idx = i)
                  => Contains(call.markdown_text,
                              <<"unknown task type: ", tasks[i].content_type>>)
            /\ \A k \in 1..Len(posts) :
                  posts[k].task = i
                     => Contains(posts[k].json.markdown.text,
                                 <<"unknown task type: ", tasks[i].content_type>>)
            /\ (pc = "done" /\ DueByHand(i) /\ ConfigComplete) => Posted(i)

C6_Witness ==
    /\ pc = "done"
    /\ \E k \in 1..Len(posts) :
          /\ UnknownKind(posts[k].task)
          /\ tasks[posts[k].task].source_url = <<"/no/such/file">>
          /\ Contains(posts[k].json.markdown.text, <<"unknown task type: ", "file">>)

\* C7: every POST goes to a URL signed in its own send_markdown_msg call, with
\* the timestamp of that call; no URL outlives its call
C7_FreshSignaturePerAttempt ==
    /\ \A k \in 1..Len(posts) :
          Contains(posts[k].url,
                   <<"timestamp=">> \o Str(posts[k].signedAt)
                      \o <<"0", "0", "0", "&sign=">>)
    /\ \A j, k \in 1..Len(posts) :
          posts[j].signedAt # posts[k].signedAt => posts[j].url # posts[k].url
    /\ pc # "post" => url = None

C7_Witness ==
    /\ Len(posts) = 2
    /\ posts[1].signedAt < posts[2].signedAt
    /\ posts[1].url # posts[2].url

\* C8: every rendered message shows the instant the run read at its start
C8_TimestampIsCanonicalNow ==
    \A k \in 1..Len(posts) :
       Contains(posts[k].json.markdown.text, StrfDateTime(RunInstant))

\* C9: the label is "@all" for is_at_all, else the joined mobiles, and "none"
\* exactly when mobiles and user ids are both empty
C9_MentionsLabel ==
    (Loaded /\ template_md.exists) =>
      \A k \in 1..Len(posts) :
         LET task == tasks[posts[k].task]
             text == posts[k].json.markdown.text
             mobiles == Get(task, "at_mobiles", <<>>)
             users == Get(task, "at_user_ids", <<>>)
         IN IF Get(task, "is_at_all", FALSE)
            THEN Contains(text, <<"cc: ", "@all">>)
            ELSE IF mobiles # <<>>
            THEN Contains(text, <<"cc: ">> \o JoinMentions(mobiles))
            ELSE Contains(text, <<"cc: ", "none">>) <=> users = <<>>

\* C10: whether a run delivers a timed task depends on its own instant alone:
\* in the window it is selected (and, the configuration complete, POSTed),
\* outside it is not, whatever the earlier runs did
C10_EveryRunDecidesAfresh ==
    (pc = "done" /\ Loaded) =>
      \A i \in 1..Len(tasks) :
         TimeParses(i) =>
            /\ Handed(i) <=> (DateMatches(i) /\ InWindow(i))
            /\ Posted(i) => Handed(i)
            /\ ConfigComplete => (Posted(i) <=> Handed(i))

\* the runs at T and at T + 15 minutes both deliver the task
C10_Witness ==
    /\ pc = "done"
    /\ Len(history) = 1
    /\ \E i \in 1..Len(tasks) :
          /\ TimeParses(i) /\ DateMatches(i)
          /\ Elapsed(i) = 15 * 60
          /\ i \in history[1]
          /\ Posted(i)

====
